---- MODULE Spec2Model ----
(***************************************************************************)
(* Entity lifecycle of nucleus3d (src/unnamed/part_000): the parent/child  *)
(* tree, mount / unmount / remount, the host node each entity owns, the    *)
(* render-loop and dispose observers, properties and components.           *)
(*                                                                         *)
(* The host engine's node is modelled by what the entity code relies on:   *)
(* Node.dispose() marks the node disposed, disposes the nodes parented to  *)
(* it, detaches it from its parent, notifies its dispose observers and     *)
(* clears them.                                                            *)
(***************************************************************************)
EXTENDS Integers, Sequences, FiniteSets, TLC

\* Bounds of the model.
NumEntities == 3
MaxChildren == 2
MaxOps == 4

Entities == 1..NumEntities
Nil == 0
\* The entity the scene mounts directly (the caller of _mount outside mountChild).
Root == 1

\* Property objects: a key is absent or holds a value.
Keys == {"x", "y"}
Absent == "absent"
Values == {"v1", "v2"}
PropsSet == [Keys -> Values \cup {Absent}]
EmptyProps == [k \in Keys |-> Absent]

\* Component instances: a concrete kind (constructor.name) and an instance of it.
Kinds == {"Light", "Physics"}
Components == [kind : Kinds, inst : {"a", "b"}]
Batches == {<<c, d>> : c \in Components, d \in Components}

\* updateProps and the component operations are exercised on the root and on one
\* entity below it; the remaining entities only populate the tree.
Subjects == {Root, 2}

\* Context objects, by identity; the first is the one of the scene the root is
\* mounted in unless said otherwise.
Contexts == {1, 2}
SceneContext == 1

\* Host scenes and transform nodes; every transform node belongs to one scene.
Scenes == {1, 2}
TransformNodes == {1, 2, 3}
NodeScene(n) == IF n = 3 THEN 2 ELSE 1

NoError == "none"

VARIABLES
  isMounted,        \* _isMounted
  children,         \* _children, insertion ordered
  parent,           \* _parent
  node,             \* _node: "none" (undefined), "live" or "disposed"
  nodeChildren,     \* host side: entities whose node is parented to this entity's node
  ownParent,        \* onMount override returns a node that already has a parent
  renderObserver,   \* _onBeforeRenderObserver is defined
  disposeObserver,  \* _onDisposeObserver is defined
  sceneObservers,   \* host side: this entity's callbacks in scene.onBeforeRenderObservable
  nodeObservers,    \* host side: this entity's callbacks in node.onDisposeObservable
  parentContext,    \* _parentContext (the parent whose getChildContext() produced it)
  context,          \* _context: the context the entity was last mounted with
  registered,       \* entities registered with the scene entity
  props,            \* _props
  components,       \* _components.array
  componentsMounted,\* _components has been mounted and not unmounted since
  sceneContext,     \* scene.__nucleus__: the context stored on the scene, or Nil
  sceneDisposed,    \* scene.isDisposed
  created,          \* the contexts (each with its own registrar) made so far: their scenes
  dropped,          \* state of the node at the moment the entity last cleared _node
  ops,              \* number of public operations performed so far
  budget,           \* number of public operations the run may perform
  last,             \* the last public operation, its arguments and how it ended
  log               \* callbacks invoked by the last public operation, in order

vars == <<isMounted, children, parent, node, nodeChildren, ownParent, renderObserver,
          disposeObserver, sceneObservers, nodeObservers, parentContext, context,
          registered, props, components, componentsMounted, sceneContext, sceneDisposed,
          created, dropped, ops, budget, last, log>>

\* The program state as one value, threaded through the (recursive) methods.
World ==
  [isMounted |-> isMounted, children |-> children, parent |-> parent, node |-> node,
   nodeChildren |-> nodeChildren, ownParent |-> ownParent,
   renderObserver |-> renderObserver, disposeObserver |-> disposeObserver,
   sceneObservers |-> sceneObservers, nodeObservers |-> nodeObservers,
   parentContext |-> parentContext, context |-> context, registered |-> registered,
   props |-> props,
   components |-> components, componentsMounted |-> componentsMounted,
   dropped |-> dropped, err |-> NoError, log |-> <<>>]

Event(ev, e, ok) == [ev |-> ev, e |-> e, ok |-> ok]

Emit(s, ev, e, ok) == [s EXCEPT !.log = Append(@, Event(ev, e, ok))]

Throw(s, msg) == [s EXCEPT !.err = msg]

\* Array.prototype.indexOf: 0-based index of the first occurrence, -1 when absent.
IndexOf(seq, x) ==
  IF \E i \in 1..Len(seq) : seq[i] = x
  THEN (CHOOSE i \in 1..Len(seq) : seq[i] = x /\ \A j \in 1..(i - 1) : seq[j] # x) - 1
  ELSE -1

\* Array.prototype.splice(start, 1): a negative start counts from the end.
Splice1(seq, start) ==
  LET from == IF start < 0
              THEN (IF Len(seq) + start < 0 THEN 0 ELSE Len(seq) + start)
              ELSE start
  IN IF from >= Len(seq)
     THEN seq
     ELSE [j \in 1..(Len(seq) - 1) |-> IF j <= from THEN seq[j] ELSE seq[j + 1]]

Without(seq, x) == SelectSeq(seq, LAMBDA y : y # x)

Dec(n) == IF n > 0 THEN n - 1 ELSE 0

\* InternalComponentCollection.mount: the attached components become mounted.
CollectionMount(s, e) == [s EXCEPT !.componentsMounted[e] = TRUE]

\* InternalComponentCollection.unmount: the components stay attached, unmounted.
CollectionUnmount(s, e) == [s EXCEPT !.componentsMounted[e] = FALSE]

\* InternalComponentCollection.mountComponent: the component joins the array.
CollectionMountComponent(s, e, c) == [s EXCEPT !.components[e] = Append(@, c)]

\* InternalComponentCollection.unmountComponent: the component leaves the array.
CollectionUnmountComponent(s, e, c) ==
  [s EXCEPT !.components[e] = SelectSeq(@, LAMBDA d : d # c)]

RECURSIVE Unmount(_, _)
RECURSIVE UnmountChildren(_, _, _, _)
RECURSIVE NodeDispose(_, _)
RECURSIVE DisposeDescendants(_, _, _)
RECURSIVE Mount(_, _, _)
RECURSIVE MountChildren(_, _, _, _)

\* _onDispose: the dispose observer of entity e.
OnDispose(s, e) == IF s.isMounted[e] THEN Unmount(s, e) ELSE s

\* Host Node.dispose() of the node entity e holds.
NodeDispose(s, e) ==
  IF s.node[e] # "live"
  THEN s
  ELSE LET s1 == [s EXCEPT !.node[e] = "disposed"]
           s2 == DisposeDescendants(s1, s.nodeChildren[e], 1)
           s3 == [s2 EXCEPT !.nodeChildren =
                    [p \in Entities |-> IF p = e THEN <<>> ELSE Without(@[p], e)]]
           s4 == IF s3.nodeObservers[e] > 0 THEN OnDispose(s3, e) ELSE s3
       IN [s4 EXCEPT !.nodeObservers[e] = 0]

\* The host disposes the direct descendants it found when dispose() started.
DisposeDescendants(s, kids, i) ==
  IF i > Len(kids)
  THEN s
  ELSE DisposeDescendants(NodeDispose(s, kids[i]), kids, i + 1)

\* The children.forEach of unmount: the length is read once, an index that the
\* array no longer has is skipped, and the array shrinks under the loop when a
\* child removes itself from it.
UnmountChildren(s, e, i, len) ==
  IF i > len \/ s.err # NoError
  THEN s
  ELSE IF i > Len(s.children[e])
       THEN UnmountChildren(s, e, i + 1, len)
       ELSE LET child == s.children[e][i]
                s1 == IF s.isMounted[child] THEN Unmount(s, child) ELSE s
            IN UnmountChildren(s1, e, i + 1, len)

\* Unmount as it would be if it dropped its node without disposing it.
UnmountKeepingNode(s, e) ==
  IF s.err # NoError
  THEN s
  ELSE IF ~s.isMounted[e]
  THEN Throw(s, "Entity not mounted")
  ELSE LET s1 == Emit(s, "willUnmount", e, TRUE)
           s2 == UnmountChildren(s1, e, 1, Len(s1.children[e]))
           sc == CollectionUnmount(s2, e)
           s3 == [sc EXCEPT
                    !.sceneObservers[e] = IF sc.renderObserver[e] THEN Dec(@) ELSE @,
                    !.nodeObservers[e] = IF sc.disposeObserver[e] THEN Dec(@) ELSE @,
                    !.renderObserver[e] = FALSE,
                    !.disposeObserver[e] = FALSE]
           s5 == [s3 EXCEPT !.dropped[e] = s3.node[e],
                            !.node[e] = "none",
                            !.nodeChildren[e] = <<>>,
                            !.isMounted[e] = FALSE]
           p  == s5.parent[e]
           s6 == IF p # Nil
                 THEN [s5 EXCEPT !.children[p] = Splice1(@, IndexOf(@, e))]
                 ELSE s5
       IN [s6 EXCEPT !.registered = @ \ {e}]

Unmount(s, e) ==
  IF s.err # NoError
  THEN s
  ELSE IF ~s.isMounted[e]
  THEN Throw(s, "Entity not mounted")
  ELSE LET s1 == Emit(s, "willUnmount", e, TRUE)
           s2 == UnmountChildren(s1, e, 1, Len(s1.children[e]))
           sc == CollectionUnmount(s2, e)
           s3 == [sc EXCEPT
                    !.sceneObservers[e] = IF sc.renderObserver[e] THEN Dec(@) ELSE @,
                    !.nodeObservers[e] = IF sc.disposeObserver[e] THEN Dec(@) ELSE @,
                    !.renderObserver[e] = FALSE,
                    !.disposeObserver[e] = FALSE]
           s4 == IF s3.node[e] # "disposed"
                 THEN NodeDispose(Emit(s3, "dispose", e, TRUE), e)
                 ELSE s3
           s5 == [s4 EXCEPT !.dropped[e] = s4.node[e],
                            !.node[e] = "none",
                            !.nodeChildren[e] = <<>>,
                            !.isMounted[e] = FALSE]
           p  == s5.parent[e]
           s6 == IF p # Nil
                 THEN [s5 EXCEPT !.children[p] = Splice1(@, IndexOf(@, e))]
                 ELSE s5
       IN [s6 EXCEPT !.registered = @ \ {e}]

\* The children.forEach of _mount.
MountChildren(s, e, i, len) ==
  IF i > len \/ s.err # NoError
  THEN s
  ELSE IF i > Len(s.children[e])
       THEN MountChildren(s, e, i + 1, len)
       ELSE LET child == s.children[e][i]
                s1 == [s EXCEPT !.parentContext[child] = e]
            IN MountChildren(Mount(s1, child, s1.context[e]), e, i + 1, len)

\* _mount as it would be if it called didMount before mounting the children.
MountDidMountFirst(s, e, ctx) ==
  IF s.err # NoError
  THEN s
  ELSE IF s.isMounted[e]
  THEN Throw(s, "Entity already mounted")
  ELSE LET p  == s.parent[e]
           s1 == Emit([s EXCEPT !.context[e] = ctx, !.node[e] = "live"], "onMount", e, TRUE)
           s2 == IF ~s1.ownParent[e] /\ p # Nil /\ s1.node[p] # "none"
                 THEN [s1 EXCEPT !.nodeChildren[p] = Append(@, e)]
                 ELSE s1
           s3 == [s2 EXCEPT !.isMounted[e] = TRUE]
           ok == /\ s3.isMounted[e]
                 /\ \A i \in 1..Len(s3.children[e]) :
                      LET c == s3.children[e][i]
                      IN /\ s3.isMounted[c]
                         /\ \E j \in 1..Len(s3.log) : s3.log[j] = Event("didMount", c, TRUE)
           s4 == Emit(s3, "didMount", e, ok)
           sk == MountChildren(s4, e, 1, Len(s4.children[e]))
           s5 == CollectionMount(sk, e)
           s6 == [s5 EXCEPT !.sceneObservers[e] = @ + 1,
                            !.renderObserver[e] = TRUE,
                            !.nodeObservers[e] = @ + 1,
                            !.disposeObserver[e] = TRUE,
                            !.registered = @ \cup {e}]
       IN IF sk.err # NoError THEN sk ELSE s6

\* _mount(context)
Mount(s, e, ctx) ==
  IF s.err # NoError
  THEN s
  ELSE IF s.isMounted[e]
  THEN Throw(s, "Entity already mounted")
  ELSE LET p  == s.parent[e]
           s1 == Emit([s EXCEPT !.context[e] = ctx, !.node[e] = "live"], "onMount", e, TRUE)
           s2 == IF ~s1.ownParent[e] /\ p # Nil /\ s1.node[p] # "none"
                 THEN [s1 EXCEPT !.nodeChildren[p] = Append(@, e)]
                 ELSE s1
           s3 == [s2 EXCEPT !.isMounted[e] = TRUE]
           sk == MountChildren(s3, e, 1, Len(s3.children[e]))
           s4 == CollectionMount(sk, e)
           ok == /\ s4.isMounted[e]
                 /\ \A i \in 1..Len(s4.children[e]) :
                      LET c == s4.children[e][i]
                      IN /\ s4.isMounted[c]
                         /\ \E j \in 1..Len(s4.log) : s4.log[j] = Event("didMount", c, TRUE)
           s5 == Emit(s4, "didMount", e, ok)
           s6 == [s5 EXCEPT !.sceneObservers[e] = @ + 1,
                            !.renderObserver[e] = TRUE,
                            !.nodeObservers[e] = @ + 1,
                            !.disposeObserver[e] = TRUE,
                            !.registered = @ \cup {e}]
       IN IF sk.err # NoError THEN sk ELSE s6

\* remount as it would be without its own mounted check.
RemountUnguarded(s, e) == Mount(Unmount(s, e), e, s.context[e])

\* remount()
Remount(s, e) ==
  IF ~s.isMounted[e]
  THEN Throw(s, "Not mounted.")
  ELSE Mount(Unmount(s, e), e, s.context[e])

\* mountChild as it would be if it checked the child after attaching it.
MountChildLateCheck(s, e, child) ==
  LET s1 == [s EXCEPT !.children[e] = Append(@, child),
                      !.parent[child] = e]
  IN IF s.isMounted[child]
     THEN Throw(s1, "Child already mounted.")
     ELSE LET s2 == Emit(s1, "parentUpdated", child, s1.isMounted[e])
          IN IF s2.isMounted[e]
             THEN Mount([s2 EXCEPT !.parentContext[child] = e], child, s2.context[e])
             ELSE s2

\* mountChild(child)
MountChild(s, e, child) ==
  IF s.isMounted[child]
  THEN Throw(s, "Child already mounted.")
  ELSE LET s1 == [s EXCEPT !.children[e] = Append(@, child),
                           !.parent[child] = e]
           s2 == Emit(s1, "parentUpdated", child, s1.isMounted[e])
       IN IF s2.isMounted[e]
          THEN Mount([s2 EXCEPT !.parentContext[child] = e], child, s2.context[e])
          ELSE s2

\* mountComponents as it would be if it compared instances instead of kinds.
RECURSIVE MountComponentsByInstance(_, _, _)
MountComponentsByInstance(s, e, batch) ==
  IF batch = <<>> \/ s.err # NoError
  THEN s
  ELSE LET c == Head(batch)
           s1 == IF \E i \in 1..Len(s.components[e]) : s.components[e][i] = c
                 THEN Throw(s, "An instance of this component is already mounted.")
                 ELSE CollectionMountComponent(s, e, c)
       IN MountComponentsByInstance(s1, e, Tail(batch))

\* The components.forEach of mountComponents: a kind already in the array throws.
RECURSIVE MountComponents(_, _, _)
MountComponents(s, e, batch) ==
  IF batch = <<>> \/ s.err # NoError
  THEN s
  ELSE LET c == Head(batch)
           s1 == IF \E i \in 1..Len(s.components[e]) : s.components[e][i].kind = c.kind
                 THEN Throw(s, "An instance of this component is already mounted.")
                 ELSE CollectionMountComponent(s, e, c)
       IN MountComponents(s1, e, Tail(batch))

\* mountComponent(component)
MountComponent(s, e, c) == MountComponents(s, e, <<c>>)

\* unmountComponent(component)
UnmountComponent(s, e, c) ==
  IF IndexOf(s.components[e], c) < 0
  THEN Throw(s, "This component is not mounted to this entity.")
  ELSE CollectionUnmountComponent(s, e, c)

\* Object.assign(target, source): every key the source holds overwrites the target's.
ObjectAssign(target, source) ==
  [k \in Keys |-> IF source[k] # Absent THEN source[k] ELSE target[k]]

\* The children.forEach of _notifyChildren.
RECURSIVE NotifyChildren(_, _, _)
NotifyChildren(s, e, i) ==
  IF i > Len(s.children[e])
  THEN s
  ELSE LET child == s.children[e][i]
           s1 == [s EXCEPT !.parentContext[child] = e]
       IN NotifyChildren(Emit(s1, "parentUpdated", child, s1.isMounted[e]), e, i + 1)

\* updateProps as it would be if it ignored the answer of willPropsUpdate.
UpdatePropsIgnoringVeto(s, e, newProps, will) ==
  LET asked == s.isMounted[e]
      s0 == IF asked THEN Emit(s, "willPropsUpdate", e, will) ELSE s
      s1 == [s0 EXCEPT !.props[e] = ObjectAssign(newProps, s0.props[e])]
  IN IF s1.isMounted[e]
     THEN LET s2 == Emit(s1, "onEntityPropsWillUpdate", e, TRUE)
              s3 == Emit(s2, "onPropsUpdated", e, TRUE)
              s4 == Emit(s3, "onEntityPropsUpdated", e, TRUE)
          IN NotifyChildren(s4, e, 1)
     ELSE s1

\* updateProps(props); will is what the willPropsUpdate hook answers when asked.
UpdateProps(s, e, newProps, will) ==
  LET asked == s.isMounted[e]
      s0 == IF asked THEN Emit(s, "willPropsUpdate", e, will) ELSE s
  IN IF ~s.isMounted[e] \/ will
     THEN LET s1 == [s0 EXCEPT !.props[e] = ObjectAssign(newProps, s0.props[e])]
          IN IF s1.isMounted[e]
             THEN LET s2 == Emit(s1, "onEntityPropsWillUpdate", e, TRUE)
                      s3 == Emit(s2, "onPropsUpdated", e, TRUE)
                      s4 == Emit(s3, "onEntityPropsUpdated", e, TRUE)
                  IN NotifyChildren(s4, e, 1)
             ELSE s1
     ELSE s0

\* _tryExecute as it would be without the try/catch.
TryExecuteUncaught(s, ev, who, throws) ==
  IF s.err # NoError
  THEN s
  ELSE LET s1 == Emit(s, ev, who, ~throws)
       IN IF throws THEN Throw(s1, "onUpdate threw") ELSE s1

\* _tryExecute(func): func is invoked and what it throws is caught and logged.
TryExecute(s, ev, who, throws) ==
  IF s.err # NoError
  THEN s
  ELSE Emit(s, ev, who, ~throws)

\* The forEach of _onBeforeRender over the components that passed the filter;
\* a component is named by its place in the components array.
RECURSIVE UpdateComponents(_, _, _, _, _)
UpdateComponents(s, e, idx, i, throwers) ==
  IF i > Len(idx)
  THEN s
  ELSE UpdateComponents(
         TryExecute(s, "component.onUpdate", idx[i], s.components[e][idx[i]] \in throwers),
         e, idx, i + 1, throwers)

\* _onBeforeRender(): enabled are the components whose isEnabled is true, throwers
\* those whose onUpdate throws, selfThrows whether the entity's own onUpdate throws.
OnBeforeRender(s, e, enabled, throwers, selfThrows) ==
  LET all == [i \in 1..Len(s.components[e]) |-> i]
      idx == SelectSeq(all, LAMBDA i : s.components[e][i] \in enabled)
      s1  == UpdateComponents(s, e, idx, 1, throwers)
  IN TryExecute(s1, "onUpdate", e, selfThrows)

\* ---- The Entity of src/src/core/Entity.ts ----

RECURSIVE CoreUnmount(_, _)
RECURSIVE CoreUnmountChildren(_, _, _)
RECURSIVE CoreMount(_, _, _)
RECURSIVE CoreMountChildren(_, _, _)

\* this.children.forEach(child => child.unmount()), from the i-th child on; an
\* error thrown by a child ends the loop.
CoreUnmountChildren(s, e, i) ==
  IF s.err # NoError \/ i > Len(s.children[e])
  THEN s
  ELSE CoreUnmountChildren(CoreUnmount(s, s.children[e][i]), e, i + 1)

\* Entity.unmount(): no check that the entity is mounted.
CoreUnmount(s, e) ==
  LET s1 == CoreUnmountChildren(Emit(s, "willUnmount", e, TRUE), e, 1)
  IN IF s1.err # NoError
     THEN s1
     ELSE IF s1.context[e] = Nil
     THEN Throw(s1, "TypeError: context is undefined")
     ELSE LET s2 == [s1 EXCEPT !.sceneObservers[e] = IF s1.renderObserver[e] THEN Dec(@) ELSE @,
                               !.renderObserver[e] = FALSE]
          IN IF s2.node[e] # "live"
             THEN Throw(s2, "TypeError: _node is undefined")
             ELSE LET s3 == [s2 EXCEPT !.node[e] = "none", !.isMounted[e] = FALSE]
                  IN IF s3.parent[e] = Nil
                     THEN Throw(s3, "TypeError: parent is undefined")
                     ELSE Emit(s3, "onChildrenUpdated", s3.parent[e], TRUE)

\* this.children.forEach(child => child._mount(this.context)), from the i-th child on.
CoreMountChildren(s, e, i) ==
  IF s.err # NoError \/ i > Len(s.children[e])
  THEN s
  ELSE CoreMountChildren(CoreMount(s, s.children[e][i], s.context[e]), e, i + 1)

\* Entity._mount(context)
CoreMount(s, e, ctx) ==
  LET fresh == ~s.isMounted[e]
      s1 == IF fresh
            THEN [s EXCEPT !.context[e] = ctx, !.node[e] = "live"]
            ELSE s
      s2 == CoreMountChildren(s1, e, 1)
  IN IF s2.err # NoError \/ s2.isMounted[e]
     THEN s2
     ELSE [Emit(s2, "didMount", e, TRUE) EXCEPT !.sceneObservers[e] = @ + 1,
                                                !.renderObserver[e] = TRUE,
                                                !.isMounted[e] = TRUE]

\* Entity.mountChild(child)
CoreMountChild(s, e, c) ==
  IF s.isMounted[c]
  THEN Throw(s, "Child already mounted.")
  ELSE LET s1 == [s EXCEPT !.children[e] = Append(@, c), !.parent[c] = e]
           s2 == Emit(s1, "parentUpdated", c, s1.isMounted[e])
       IN IF s2.isMounted[e]
          THEN LET s3 == CoreMount(s2, c, s2.context[e])
               IN IF s3.err # NoError THEN s3 ELSE Emit(s3, "onChildrenUpdated", e, TRUE)
          ELSE s2

\* The helper's view of the program: the scenes, the contexts made, and what the
\* call returns or throws.
Helper ==
  [sceneContext |-> sceneContext, sceneDisposed |-> sceneDisposed, created |-> created,
   context |-> context, ret |-> Nil, err |-> NoError]

\* NucleusHelper._initializeFor(scene)
InitializeFor(h, scene) ==
  IF h.sceneDisposed[scene]
  THEN [h EXCEPT !.err = "Scene has been disposed"]
  ELSE LET made == Append(h.created, scene)
       IN [h EXCEPT !.created = made,
                    !.sceneContext[scene] = Len(made),
                    !.ret = Len(made)]

\* getContextFor as it would be if it initialized a context on every call.
GetContextForAlwaysNew(h, mp) ==
  IF mp.kind = "context"
  THEN [h EXCEPT !.ret = mp.ref]
  ELSE IF mp.kind = "entity"
  THEN [h EXCEPT !.ret = h.context[mp.ref]]
  ELSE InitializeFor(h, IF mp.kind = "node" THEN NodeScene(mp.ref) ELSE mp.ref)

\* NucleusHelper.getContextFor(mountingPoint)
GetContextFor(h, mp) ==
  IF mp.kind = "context"
  THEN [h EXCEPT !.ret = mp.ref]
  ELSE IF mp.kind = "entity"
  THEN [h EXCEPT !.ret = h.context[mp.ref]]
  ELSE LET scene == IF mp.kind = "node" THEN NodeScene(mp.ref) ELSE mp.ref
       IN IF h.sceneContext[scene] # Nil
          THEN [h EXCEPT !.ret = h.sceneContext[scene]]
          ELSE InitializeFor(h, scene)

\* Entities reachable from e through children lists.
RECURSIVE Descendants(_, _)
Descendants(kids, e) ==
  LET direct == {kids[e][i] : i \in 1..Len(kids[e])}
  IN direct \cup UNION {Descendants(kids, c) : c \in direct}

\* A public operation on entity e, with the arguments it does not take left empty.
Call(op, e) ==
  [op |-> op, e |-> e, child |-> Nil, batch |-> <<>>, newProps |-> EmptyProps,
   will |-> TRUE, enabled |-> {}, throwers |-> {}, selfThrows |-> FALSE,
   ctx |-> Nil, mp |-> [kind |-> "none", ref |-> Nil], ret |-> Nil, err |-> NoError]

Commit(s, call) ==
  /\ ops < budget
  /\ ops' = ops + 1
  /\ budget' = budget
  /\ isMounted' = s.isMounted
  /\ children' = s.children
  /\ parent' = s.parent
  /\ node' = s.node
  /\ nodeChildren' = s.nodeChildren
  /\ ownParent' = s.ownParent
  /\ renderObserver' = s.renderObserver
  /\ disposeObserver' = s.disposeObserver
  /\ sceneObservers' = s.sceneObservers
  /\ nodeObservers' = s.nodeObservers
  /\ parentContext' = s.parentContext
  /\ context' = s.context
  /\ registered' = s.registered
  /\ props' = s.props
  /\ components' = s.components
  /\ componentsMounted' = s.componentsMounted
  /\ dropped' = s.dropped
  /\ UNCHANGED <<sceneContext, sceneDisposed, created>>
  /\ last' = [call EXCEPT !.err = s.err]
  /\ log' = s.log

\* The state after the entities are constructed.
InitWith(n) ==
  /\ isMounted = [e \in Entities |-> FALSE]
  /\ children = [e \in Entities |-> <<>>]
  /\ parent = [e \in Entities |-> Nil]
  /\ node = [e \in Entities |-> "none"]
  /\ nodeChildren = [e \in Entities |-> <<>>]
  /\ ownParent \in [Entities -> BOOLEAN]
  /\ renderObserver = [e \in Entities |-> FALSE]
  /\ disposeObserver = [e \in Entities |-> FALSE]
  /\ sceneObservers = [e \in Entities |-> 0]
  /\ nodeObservers = [e \in Entities |-> 0]
  /\ parentContext = [e \in Entities |-> Nil]
  /\ context = [e \in Entities |-> Nil]
  /\ registered = {}
  /\ props = [e \in Entities |-> EmptyProps]
  /\ components = [e \in Entities |-> <<>>]
  /\ componentsMounted = [e \in Entities |-> FALSE]
  /\ dropped = [e \in Entities |-> "none"]
  /\ sceneContext = [sc \in Scenes |-> Nil]
  /\ sceneDisposed = [sc \in Scenes |-> FALSE]
  /\ created = <<>>
  /\ ops = 0
  /\ budget = n
  /\ last = Call("new", Nil)
  /\ log = <<>>

Init == InitWith(MaxOps)

\* The scene mounts its root entity with the scene's context.
DoMountRoot == Commit(Mount(World, Root, SceneContext), Call("mount", Root))

\* A scene mounts the root entity with that scene's context.
DoMountRootIn ==
  \E ctx \in Contexts :
    Commit(Mount(World, Root, ctx), [Call("mount", Root) EXCEPT !.ctx = ctx])

\* mountChild; the children relation is kept acyclic by the caller.
DoMountChild ==
  \E e \in Entities, c \in Entities :
    /\ c # e
    /\ e \notin Descendants(children, c)
    /\ Len(children[e]) < MaxChildren
    /\ Commit(MountChild(World, e, c), [Call("mountChild", e) EXCEPT !.child = c])

DoUnmount == \E e \in Entities : Commit(Unmount(World, e), Call("unmount", e))

DoRemount == \E e \in Entities : Commit(Remount(World, e), Call("remount", e))

\* The host engine disposes the node of an entity.
DoHostDispose ==
  \E e \in Entities :
    /\ node[e] = "live"
    /\ Commit(NodeDispose(World, e), Call("hostDispose", e))

DoUpdateProps ==
  \E e \in Subjects, newProps \in PropsSet, will \in BOOLEAN :
    /\ isMounted[e] \/ will
    /\ Commit(UpdateProps(World, e, newProps, will),
              [Call("updateProps", e) EXCEPT !.newProps = newProps, !.will = will])

DoMountComponent ==
  \E e \in Subjects, c \in Components :
    Commit(MountComponent(World, e, c), [Call("mountComponent", e) EXCEPT !.batch = <<c>>])

DoMountComponents ==
  \E e \in Subjects, batch \in Batches :
    Commit(MountComponents(World, e, batch),
           [Call("mountComponents", e) EXCEPT !.batch = batch])

DoUnmountComponent ==
  \E e \in Subjects, c \in Components :
    Commit(UnmountComponent(World, e, c),
           [Call("unmountComponent", e) EXCEPT !.batch = <<c>>])

\* The scene fires its before-render observable; the entity's observer runs.
DoBeforeRender ==
  \E e \in Subjects :
    /\ sceneObservers[e] > 0
    /\ \E enabled \in SUBSET {components[e][i] : i \in 1..Len(components[e])} :
         \E throwers \in SUBSET enabled, selfThrows \in BOOLEAN :
           Commit(OnBeforeRender(World, e, enabled, throwers, selfThrows),
                  [Call("beforeRender", e) EXCEPT !.enabled = enabled,
                                                  !.throwers = throwers,
                                                  !.selfThrows = selfThrows])

\* The entity tree and its lifecycle.
Next == DoMountRoot \/ DoMountChild \/ DoUnmount \/ DoRemount \/ DoHostDispose

Spec == Init /\ [][Next]_vars

\* Every onMount is the default one: new nodes have no parent of their own.
InitDefault == Init /\ ownParent = [e \in Entities |-> FALSE]

\* Properties of entities in a tree.
NextProps == DoMountRoot \/ DoMountChild \/ DoUpdateProps

SpecProps == InitDefault /\ [][NextProps]_vars

\* Components of entities.
NextComponents ==
  DoMountRoot \/ DoUnmount \/ DoMountComponent \/ DoMountComponents \/ DoUnmountComponent

SpecComponents == InitDefault /\ [][NextComponents]_vars

\* What a helper call or a host scene event leaves of the entities: everything.
EntitiesUnchanged ==
  UNCHANGED <<isMounted, children, parent, node, nodeChildren, ownParent, renderObserver,
              disposeObserver, sceneObservers, nodeObservers, parentContext, context,
              registered, props, components, componentsMounted, dropped, budget>>

MountingPoints ==
  [kind : {"scene"}, ref : Scenes] \cup [kind : {"node"}, ref : TransformNodes]
    \cup [kind : {"context"}, ref : 1..Len(created)] \cup [kind : {"entity"}, ref : Entities]

DoGetContextFor ==
  \E mp \in MountingPoints :
    LET h == GetContextFor(Helper, mp)
    IN /\ ops < budget
       /\ ops' = ops + 1
       /\ sceneContext' = h.sceneContext
       /\ sceneDisposed' = h.sceneDisposed
       /\ created' = h.created
       /\ last' = [Call("getContextFor", Nil) EXCEPT !.mp = mp, !.ret = h.ret, !.err = h.err]
       /\ log' = <<>>
       /\ EntitiesUnchanged

\* The host engine disposes a scene.
DoDisposeScene ==
  \E sc \in Scenes :
    /\ ~sceneDisposed[sc]
    /\ ops < budget
    /\ ops' = ops + 1
    /\ sceneDisposed' = [sceneDisposed EXCEPT ![sc] = TRUE]
    /\ last' = [Call("disposeScene", Nil) EXCEPT !.mp = [kind |-> "scene", ref |-> sc]]
    /\ log' = <<>>
    /\ UNCHANGED <<sceneContext, created>>
    /\ EntitiesUnchanged

\* The context helper over the host's scenes.
NextHelper == DoGetContextFor \/ DoDisposeScene

SpecHelper == InitDefault /\ [][NextHelper]_vars

\* The host mounts the root entity of src/src/core/Entity.ts with the scene's context.
DoCoreMountRoot == Commit(CoreMount(World, Root, SceneContext), Call("mount", Root))

DoCoreMountChild ==
  \E e \in Entities, c \in Entities :
    /\ c # e
    /\ e \notin Descendants(children, c)
    /\ Len(children[e]) < MaxChildren
    /\ Commit(CoreMountChild(World, e, c), [Call("mountChild", e) EXCEPT !.child = c])

DoCoreUnmount == \E e \in Entities : Commit(CoreUnmount(World, e), Call("unmount", e))

\* Entity trees of src/src/core/Entity.ts.
NextCore == DoCoreMountRoot \/ DoCoreMountChild \/ DoCoreUnmount

InitCore == InitWith(MaxOps + 1) /\ ownParent = [e \in Entities |-> FALSE]

SpecCore == InitCore /\ [][NextCore]_vars

\* The entity tree mounted in one scene or another.
NextContext == DoMountRootIn \/ DoMountChild \/ DoUnmount \/ DoRemount

\* Moving a tree to another scene takes one operation more than building it.
InitContext == InitWith(MaxOps + 1)

SpecContext == InitContext /\ [][NextContext]_vars

\* The render loop over entities with components.
NextRender == DoMountRoot \/ DoMountComponent \/ DoMountComponents \/ DoBeforeRender

SpecRender == InitDefault /\ [][NextRender]_vars

(***************************************************************************)
(* Claims.                                                                 *)
(***************************************************************************)

Range(seq) == {seq[i] : i \in 1..Len(seq)}

Logged(ev, e) == \E i \in 1..Len(log) : log[i].ev = ev /\ log[i].e = e

\* C1: after unmount() returns on a mounted entity, the entity and every entity
\* that was mounted in its subtree are unmounted, for any number of children.
C1_UnmountUnmountsSubtree ==
  [][\A e \in Entities :
       (last'.op = "unmount" /\ last'.e = e /\ isMounted[e] /\ last'.err = NoError)
         => \A d \in {e} \cup Descendants(children, e) : isMounted[d] => ~isMounted'[d]]_vars

\* C2: after remount() returns on a mounted entity, the entity is mounted and
\* every entity of its former children list is still in the list and mounted.
C2_RemountKeepsChildren ==
  [][\A e \in Entities :
       (last'.op = "remount" /\ last'.e = e /\ isMounted[e] /\ last'.err = NoError)
         => /\ isMounted'[e]
            /\ \A c \in Range(children[e]) : c \in Range(children'[e]) /\ isMounted'[c]]_vars

\* C3: every entity occurs in the children list of at most one entity, and at
\* most once in that list.
C3_ExactlyOneParent ==
  \A c \in Entities :
    Cardinality({pi \in Entities \X (1..MaxChildren) :
                   pi[2] <= Len(children[pi[1]]) /\ children[pi[1]][pi[2]] = c}) <= 1

\* C4: after an accepted updateProps(props), the entity's props hold the value of
\* props for every key present in props.
C4_UpdatePropsTakesNewValues ==
  (last.op = "updateProps" /\ (~isMounted[last.e] \/ last.will))
    => \A k \in Keys : last.newProps[k] # Absent => props[last.e][k] = last.newProps[k]

\* C5: updateProps on a mounted entity whose willPropsUpdate answers false leaves
\* the props unchanged and invokes none of the components' onEntityPropsWillUpdate
\* and onEntityPropsUpdated, the entity's onPropsUpdated, the children's parentUpdated.
C5_RejectedUpdateChangesNothing ==
  [][\A e \in Entities :
       (last'.op = "updateProps" /\ last'.e = e /\ isMounted[e] /\ ~last'.will)
         => /\ props' = props
            /\ \A i \in 1..Len(log') :
                 log'[i].ev \notin {"onEntityPropsWillUpdate", "onEntityPropsUpdated",
                                    "onPropsUpdated", "parentUpdated"}]_vars

C5_Witness ==
  /\ last.op = "updateProps"
  /\ isMounted[last.e]
  /\ ~last.will
  /\ children[last.e] # <<>>
  /\ \E k \in Keys : last.newProps[k] # Absent /\ props[last.e][k] # last.newProps[k]
  /\ log = <<Event("willPropsUpdate", last.e, FALSE)>>

\* A batch that tries to mount a kind the entity already holds, or holds by then.
KindConflict(held, batch) ==
  \E i \in 1..Len(batch) :
    \/ \E j \in 1..Len(held) : held[j].kind = batch[i].kind
    \/ \E j \in 1..(i - 1) : batch[j].kind = batch[i].kind

\* C6: the component collection never holds two components of one kind, and
\* mounting a second component of a kind already present raises
\* 'An instance of this component is already mounted.'.
C6_OneComponentPerKind ==
  [][/\ \A e \in Entities : \A i, j \in 1..Len(components'[e]) :
          components'[e][i].kind = components'[e][j].kind => i = j
     /\ \A e \in Entities :
          (/\ last'.op \in {"mountComponent", "mountComponents"}
           /\ last'.e = e
           /\ KindConflict(components[e], last'.batch))
            => last'.err = "An instance of this component is already mounted."]_vars

C6_Witness ==
  /\ last.op = "mountComponents"
  /\ last.err = "An instance of this component is already mounted."
  /\ last.batch[1].kind = last.batch[2].kind
  /\ last.batch[1] # last.batch[2]
  /\ components[last.e] = <<last.batch[1]>>

\* C7: after unmount() returns on a mounted entity, the node it held has been
\* disposed, the entity no longer references it and is not mounted; this holds
\* of every entity the call unmounted.
C7_UnmountDisposesNode ==
  (last.op = "unmount" /\ last.err = NoError)
    => \A e \in Entities :
         (e = last.e \/ Logged("willUnmount", e))
           => node[e] = "none" /\ ~isMounted[e] /\ dropped[e] = "disposed"

C7_Witness ==
  /\ last.op = "unmount"
  /\ last.err = NoError
  /\ Logged("dispose", last.e)
  /\ \E c \in Entities : c # last.e /\ Logged("dispose", c)
  /\ node[last.e] = "none"
  /\ dropped[last.e] = "disposed"

\* C8: an entity has exactly one before-render observer and one dispose observer
\* registered when it is mounted and none when it is not.
C8_ObserversMatchMounted ==
  \A e \in Entities :
    IF isMounted[e]
    THEN sceneObservers[e] = 1 /\ nodeObservers[e] = 1
    ELSE sceneObservers[e] = 0 /\ nodeObservers[e] = 0

\* C9: whenever didMount of an entity is invoked, the entity is mounted and every
\* entity in its children list is mounted and has had its own didMount invoked.
C9_DidMountAfterChildren ==
  \A i \in 1..Len(log) : log[i].ev = "didMount" => log[i].ok

C9_Witness ==
  /\ last.op = "mount"
  /\ last.err = NoError
  /\ \E c \in Range(children[Root]) : children[c] # <<>> /\ Logged("didMount", c)
  /\ log[Len(log)] = Event("didMount", Root, TRUE)

\* C10: when the host disposes the node of a mounted entity and the dispose
\* observable fires, the entity ends unmounted and out of its parent's children
\* list, and dispose is not invoked again on the disposed node.
C10_HostDisposeUnmounts ==
  [][\A e \in Entities :
       (last'.op = "hostDispose" /\ last'.e = e /\ isMounted[e] /\ nodeObservers[e] > 0)
         => /\ ~isMounted'[e]
            /\ parent'[e] # Nil => e \notin Range(children'[parent'[e]])
            /\ \A i \in 1..Len(log') : log'[i] # Event("dispose", e, TRUE)]_vars

\* C14: unmount() or remount() on an entity that is not mounted raises
\* 'Entity not mounted' / 'Not mounted.' and changes nothing: willUnmount is not
\* invoked and isMounted, the children lists, the components and the parents
\* are as before.
C14_NotMountedRaisesAndKeepsState ==
  [][\A e \in Entities :
       (last'.op \in {"unmount", "remount"} /\ last'.e = e /\ ~isMounted[e])
         => /\ last'.err = IF last'.op = "unmount" THEN "Entity not mounted"
                                                   ELSE "Not mounted."
            /\ log' = <<>>
            /\ isMounted' = isMounted
            /\ children' = children
            /\ parent' = parent
            /\ components' = components
            /\ node' = node]_vars

C14_Witness ==
  /\ last.op = "remount"
  /\ last.err = "Not mounted."
  /\ ~isMounted[last.e]
  /\ parent[last.e] # Nil
  /\ children[last.e] # <<>>

\* C15: mountChild(child) with a child that is already mounted raises
\* 'Child already mounted.' and leaves the state unchanged: no children list
\* gains the child, the child's parent is unchanged, parentUpdated is not invoked.
C15_MountedChildIsRejected ==
  [][\A e \in Entities, c \in Entities :
       (last'.op = "mountChild" /\ last'.e = e /\ last'.child = c /\ isMounted[c])
         => /\ last'.err = "Child already mounted."
            /\ children' = children
            /\ parent' = parent
            /\ isMounted' = isMounted
            /\ node' = node
            /\ log' = <<>>]_vars

C15_Witness ==
  /\ last.op = "mountChild"
  /\ last.err = "Child already mounted."
  /\ isMounted[last.child]
  /\ parent[last.child] \notin {Nil, last.e}
  /\ last.child \notin Range(children[last.e])

\* C16: on one before-render event of a mounted entity, onUpdate is invoked on
\* each component whose isEnabled is true, in order, and then on the entity;
\* disabled components are not invoked, and a callback that throws does not
\* keep the remaining callbacks of the event from being invoked.
C16_BeforeRenderRunsEveryCallback ==
  last.op = "beforeRender"
    => LET comps == components[last.e]
           idx   == SelectSeq([i \in 1..Len(comps) |-> i],
                              LAMBDA i : comps[i] \in last.enabled)
       IN /\ last.err = NoError
          /\ Len(log) = Len(idx) + 1
          /\ \A j \in 1..Len(idx) :
               log[j] = Event("component.onUpdate", idx[j], comps[idx[j]] \notin last.throwers)
          /\ log[Len(log)] = Event("onUpdate", last.e, ~last.selfThrows)

C16_Witness ==
  /\ last.op = "beforeRender"
  /\ isMounted[last.e]
  /\ Len(components[last.e]) = 2
  /\ last.enabled = {components[last.e][2]}
  /\ last.throwers = last.enabled
  /\ last.selfThrows
  /\ log = <<Event("component.onUpdate", 2, FALSE), Event("onUpdate", last.e, FALSE)>>

\* C12: a child mounted through its parent gets the parent's context, so every
\* mounted entity has the context of each mounted entity that lists it as a child,
\* also after remount.
C12_TreeSharesContext ==
  \A p \in Entities : \A c \in Range(children[p]) :
    (isMounted[p] /\ isMounted[c]) => (context[c] # Nil /\ context[c] = context[p])

\* The scene a mounting point stands for, when it is a scene or a transform node.
SceneOf(mp) == IF mp.kind = "node" THEN NodeScene(mp.ref) ELSE mp.ref

\* C11: getContextFor makes at most one context (and registrar) per scene: called
\* with a scene that is not disposed, or with a transform node of it, it returns
\* the scene's context, made on the first call and the identical one afterwards.
C11_OneContextPerScene ==
  [][/\ \A i, j \in 1..Len(created') : created'[i] = created'[j] => i = j
     /\ \A sc \in Scenes : sceneContext[sc] # Nil => sceneContext'[sc] = sceneContext[sc]
     /\ (/\ last'.op = "getContextFor"
         /\ last'.mp.kind \in {"scene", "node"}
         /\ ~sceneDisposed[SceneOf(last'.mp)])
          => LET sc == SceneOf(last'.mp)
             IN /\ last'.err = NoError
                /\ last'.ret # Nil
                /\ last'.ret = sceneContext'[sc]
                /\ created'[last'.ret] = sc
                /\ IF sceneContext[sc] # Nil
                   THEN last'.ret = sceneContext[sc] /\ created' = created
                   ELSE created' = Append(created, sc)]_vars

C11_Witness ==
  /\ last.op = "getContextFor"
  /\ last.mp = [kind |-> "node", ref |-> 3]
  /\ created = <<1, 2>>
  /\ last.ret = 2
  /\ ops = 4

\* C13: in the Entity of src/src/core/Entity.ts, unmount() on a mounted entity that
\* has a parent completes without error and leaves the entity and every entity in
\* its children list unmounted with no before-render observer, also when one of the
\* children was unmounted on its own before.
C13_CoreUnmountUnmountsChildren ==
  [][\A e \in Entities :
       (last'.op = "unmount" /\ last'.e = e /\ isMounted[e] /\ parent[e] # Nil)
         => /\ last'.err = NoError
            /\ \A x \in {e} \cup Range(children[e]) :
                 ~isMounted'[x] /\ ~renderObserver'[x]]_vars

====
